---- MODULE Spec2Model ----
(***************************************************************************)
(* Model of main.py: a batch script that loads a table of news articles,   *)
(* counts colloquial ("slang") words in titles and contents, and renders   *)
(* the counts as chart files.                                              *)
(*                                                                         *)
(* Texts are sequences of one-character strings.  A table is a sequence of *)
(* rows; a row is a record of the columns the script reads.                *)
(***************************************************************************)
EXTENDS Integers, Sequences, FiniteSets, TLC

VARIABLES
    pc,               \* position of main() / of the function it is running
    calls,            \* functions main() has called so far, in call order
    df,               \* the loaded table (None after a failed load)
    idx,              \* number of rows df.iterrows() has yielded so far
    results,          \* the dict built by analyze_news_and_slang
    slang_in_title,   \* detection of the row last processed (title)
    slang_in_content, \* detection of the row last processed (content)
    writes,           \* per result field: writes done while processing the last row
    figs,             \* open matplotlib figures, oldest first; the last is current
    created,          \* figures created so far, in creation order
    files,            \* output file name -> what is on disk
    top_words,        \* the frame drawn by the 'Kata Gaul Terpopuler' bar chart
    text,             \* detect_slang_words: argument text
    vocab,            \* detect_slang_words: argument slang_dictionary
    found             \* detect_slang_words: returned list

vars == <<pc, calls, df, idx, results, slang_in_title, slang_in_content, writes,
          figs, created, files, top_words, text, vocab, found>>

----------------------------------------------------------------------------
(* Bounds of the model *)

\* longest text the detector is run on exhaustively
MaxTextLen == 4
\* longest table main() is run on
MaxRows == 6

----------------------------------------------------------------------------
(* Characters and str.lower() *)

UpperChars == <<"A","B","C","D","E","F","G","H","I","J","K","L","M",
                "N","O","P","Q","R","S","T","U","V","W","X","Y","Z">>
LowerChars == <<"a","b","c","d","e","f","g","h","i","j","k","l","m",
                "n","o","p","q","r","s","t","u","v","w","x","y","z">>
DigitChars == <<"0","1","2","3","4","5","6","7","8","9">>

Range(s) == {s[i] : i \in DOMAIN s}

\* a missing cell (pandas NaN); it is not a text
NaN == <<"NaN">>

\* str(text): a text is itself, a missing cell prints as 'nan'
Str(t) == IF t = NaN THEN <<"n", "a", "n">> ELSE t

\* the lower-case letter of each upper-case letter
ToLower ==
    [c \in Range(UpperChars) |->
        LowerChars[CHOOSE i \in DOMAIN UpperChars : UpperChars[i] = c]]

\* one character of str.lower()
LowerChar(c) == IF c \in DOMAIN ToLower THEN ToLower[c] ELSE c

\* str.lower()
Lower(s) == [i \in DOMAIN s |-> LowerChar(s[i])]

\* the regular expression class \w
WordChars ==
    Range(UpperChars) \cup Range(LowerChars) \cup Range(DigitChars) \cup {"_"}

IsWordChar(c) == c \in WordChars

----------------------------------------------------------------------------
(* re.findall(r'\b\w+\b', s).  Offsets run from 0 to Len(s); offset p lies  *)
(* between s[p] and s[p+1].                                                 *)

WordAt(s, i) == i \in DOMAIN s /\ IsWordChar(s[i])

\* \b holds at offset p
Boundary(s, p) == WordAt(s, p) # WordAt(s, p + 1)

\* greedy \w+ from offset p: the largest offset it can reach
RECURSIVE GreedyEnd(_, _)
GreedyEnd(s, p) == IF WordAt(s, p + 1) THEN GreedyEnd(s, p + 1) ELSE p

\* backtracking of \w+ from offset q down to p + 1 until the closing \b holds
RECURSIVE BackTrack(_, _, _)
BackTrack(s, p, q) ==
    IF q <= p THEN -1
    ELSE IF Boundary(s, q) THEN q
    ELSE BackTrack(s, p, q - 1)

\* end offset of the match of \b\w+\b starting at offset p, -1 if none
MatchEnd(s, p) ==
    IF Boundary(s, p) /\ WordAt(s, p + 1)
    THEN BackTrack(s, p, GreedyEnd(s, p))
    ELSE -1

\* the non-overlapping matches, scanning left to right from offset p
RECURSIVE FindAllFrom(_, _)
FindAllFrom(s, p) ==
    IF p >= Len(s) THEN <<>>
    ELSE LET e == MatchEnd(s, p)
         IN  IF e = -1 THEN FindAllFrom(s, p + 1)
             ELSE <<SubSeq(s, p + 1, e)>> \o FindAllFrom(s, e)

findall(s) == FindAllFrom(s, 0)

\* the loop of lines 40-42: keep the words that are in the dictionary
RECURSIVE KeepSlang(_, _)
KeepSlang(words, slang_dictionary) ==
    IF words = <<>> THEN <<>>
    ELSE (IF Head(words) \in slang_dictionary THEN <<Head(words)>> ELSE <<>>)
         \o KeepSlang(Tail(words), slang_dictionary)

\* as detect_slang_words, without the lower-casing of line 37
detect_slang_words_no_lower(t, slang_dictionary) ==
    KeepSlang(findall(Str(t)), slang_dictionary)

detect_slang_words(t, slang_dictionary) ==
    KeepSlang(findall(Lower(Str(t))), slang_dictionary)

\* the set literal of lines 51-68
SlangDictionary == {
    <<"g", "u", "e">>, <<"l", "u">>, <<"e", "l", "u">>, <<"g", "w">>, <<"l", "o", "e">>,
    <<"g", "a", "k">>, <<"n", "g", "g", "a", "k">>, <<"g", "a", "d", "a">>,
    <<"g", "a", "a", "d", "a">>, <<"u", "d", "a", "h">>, <<"u", "d", "h">>, <<"d", "a", "h">>,
    <<"u", "d", "e", "h">>, <<"t", "u", "h">>, <<"t", "e", "h">>, <<"m", "a", "h">>,
    <<"d", "o", "n", "g">>, <<"d", "e", "h">>, <<"s", "i", "h">>, <<"n", "i", "h">>,
    <<"m", "u", "l", "u">>, <<"a", "j", "a">>, <<"d", "o", "a", "n", "g">>,
    <<"b", "a", "n", "g", "e", "t">>, <<"b", "g", "t">>, <<"b", "e", "n", "e", "r">>,
    <<"v", "i", "r", "a", "l">>, <<"n", "e", "t", "i", "z", "e", "n">>,
    <<"f", "o", "l", "l", "o", "w", "e", "r", "s">>, <<"h", "a", "t", "e", "r", "s">>,
    <<"h", "i", "t", "s">>, <<"k", "e", "c", "e">>, <<"g", "e", "r", "c", "e", "p">>,
    <<"g", "a", "b", "u", "t">>, <<"g", "a", "r", "i", "n", "g">>, <<"r", "e", "c", "e", "h">>,
    <<"b", "a", "p", "e", "r">>, <<"k", "e", "p", "o">>, <<"j", "u", "l", "i", "d">>,
    <<"g", "l", "o", "w", " ", "u", "p">>, <<"o", "t", "w">>, <<"b", "t", "w">>,
    <<"a", "s", "a", "p">>, <<"t", "f", "l">>, <<"g", "a", "s">>, <<"g", "w", "s">>,
    <<"h", "b", "d">>, <<"o", "o", "t">>, <<"t", "b", "h">>, <<"f", "y", "i">>,
    <<"c", "m", "i", "i", "w">>, <<"i", "m", "h", "o">>, <<"t", "y", "s", "m">>,
    <<"w", "k", "w", "k">>, <<"t", "t", "d">>, <<"p", "d", "f">>,
    <<"g", "e", "g", "a", "r", "a">>, <<"s", "a", "n", "t", "u", "y">>,
    <<"g", "o", "k", "i", "l">>, <<"c", "u", "c", "o", "k">>, <<"m", "a", "n", "t", "u", "l">>,
    <<"m", "a", "n", "t", "a", "p">>, <<"s", "u", "l", "t", "a", "n">>, <<"a", "u", "t", "o">>,
    <<"a", "n", "j", "a", "y">>, <<"y", "a", "k", "a", "l", "i">>, <<"s", "a", "b", "i">>,
    <<"j", "u", "t", "e", "k">>, <<"l", "e", "b", "a", "y">>, <<"k", "z", "l">>
}

----------------------------------------------------------------------------
(* The table.  A row holds the columns the script reads: Judul, Waktu,      *)
(* Content, Tag1..Tag5 (as the tuple Tags) and Source.                      *)

\* a timestamp that failed to parse (errors='coerce'); dates are day numbers
NaT == -1

\* a missing cell of a tag or source column (these are plain strings here)
NoTag == "NaN"

Title_GueSukaBanget ==
    <<"G","u","e"," ","S","u","k","a"," ","B","a","n","g","e","t">>
Text_BeritaBiasa ==
    <<"B","e","r","i","t","a"," ","b","i","a","s","a">>
Title_Sidang ==
    <<"S","i","d","a","n","g"," ","K","P","U">>
Text_NggakSihNggak ==
    <<"N","g","g","a","k"," ","s","i","h",","," ","n","g","g","a","k","!">>
Title_ManyWords ==
    <<"g","u","e"," ","l","u"," ","g","w"," ","g","a","k"," ","d","a","h">>
Text_ManyWords ==
    <<"t","u","h"," ","t","e","h"," ","m","a","h"," ","d","o","n","g"," ",
      "d","e","h",","," ","G","u","e"," ","g","u","e","!">>
Title_Pemilu ==
    <<"P","e","m","i","l","u"," ","2","0","2","4">>

\* slang in the title only
RowTitleOnly ==
    [Judul |-> Title_GueSukaBanget, Waktu |-> 1, Content |-> Text_BeritaBiasa,
     Tags |-> <<"Jokowi", "KPU", NoTag, NoTag, NoTag>>, Source |-> "Detik"]
\* slang in the content only, 'nggak' twice
RowContentOnly ==
    [Judul |-> Title_Sidang, Waktu |-> 2, Content |-> Text_NggakSihNggak,
     Tags |-> <<"Prabowo", "Jokowi", "PDIP", NoTag, NoTag>>, Source |-> "Kompas"]
\* slang in both fields: ten distinct words, 'gue' in the title and twice in the
\* content
RowBoth ==
    [Judul |-> Title_ManyWords, Waktu |-> 2, Content |-> Text_ManyWords,
     Tags |-> <<"Pemilu 2024", "Pilpres 2024", "Pilkada 2024", "Pilkada Jakarta",
                "pilkada 2024">>, Source |-> "Tempo"]
\* no slang, empty content cell, unparsed date
RowNoSlang ==
    [Judul |-> Title_Pemilu, Waktu |-> NaT, Content |-> NaN,
     Tags |-> <<"jabodetabek", "Golkar", "PKS", "Jokowi", "Bawaslu">>,
     Source |-> "Detik"]

RowList == <<RowTitleOnly, RowContentOnly, RowBoth, RowNoSlang>>

RowTypes == Range(RowList)

Sources == {"Detik", "Tempo", "Kompas"}

\* the tables load_data can return
Tables == UNION {[1..n -> RowTypes] : n \in 0..MaxRows}

\* load_data's results: a table, or None
None == [loaded |-> FALSE, rows |-> <<>>]
Loaded(rows) == [loaded |-> TRUE, rows |-> rows]

----------------------------------------------------------------------------
(* collections.Counter: keys in insertion order, as a sequence of           *)
(* <<key, count>> pairs.                                                    *)

Keys(c) == {c[i][1] : i \in DOMAIN c}

\* c[k], 0 for an absent key
CounterGet(c, k) ==
    IF k \in Keys(c) THEN c[CHOOSE i \in DOMAIN c : c[i][1] = k][2] ELSE 0

\* c[k] += 1
CounterInc(c, k) ==
    IF k \in Keys(c)
    THEN [i \in DOMAIN c |-> IF c[i][1] = k THEN <<k, c[i][2] + 1>> ELSE c[i]]
    ELSE Append(c, <<k, 1>>)

\* c.update(iterable)
RECURSIVE CounterUpdate(_, _)
CounterUpdate(c, words) ==
    IF words = <<>> THEN c
    ELSE CounterUpdate(CounterInc(c, Head(words)), Tail(words))

----------------------------------------------------------------------------
(* pandas: Series.value_counts(), head(n), min/max, groupby().size()        *)

Min2(a, b) == IF a <= b THEN a ELSE b

\* s.head(n)
HeadN(s, n) == SubSeq(s, 1, Min2(n, Len(s)))

\* the non-null values of a series, in order
DropNa(s, null) == SelectSeq(s, LAMBDA v : v # null)

\* a pair goes after every pair whose count is not smaller: ties keep their order
RECURSIVE InsertDesc(_, _)
InsertDesc(sorted, e) ==
    IF sorted = <<>> THEN <<e>>
    ELSE IF Head(sorted)[2] >= e[2] THEN <<Head(sorted)>> \o InsertDesc(Tail(sorted), e)
    ELSE <<e>> \o sorted

RECURSIVE SortDesc(_)
SortDesc(c) ==
    IF c = <<>> THEN <<>>
    ELSE InsertDesc(SortDesc(SubSeq(c, 1, Len(c) - 1)), c[Len(c)])

\* s.value_counts(): the distinct non-null values with their counts, by descending
\* count.  Values of equal count are kept in the order the series first shows
\* them, which is what the sort does on short series; pandas does not promise an
\* order among ties, and C7_TopTags does not depend on one.
ValueCounts(s, null) == SortDesc(CounterUpdate(<<>>, DropNa(s, null)))

Column(rows, c) == [i \in DOMAIN rows |-> rows[i].Tags[c]]

\* pd.concat([df['Tag1'], ..., df['Tag5']]): column after column
PooledTags(rows) ==
    Column(rows, 1) \o Column(rows, 2) \o Column(rows, 3) \o Column(rows, 4)
    \o Column(rows, 5)

Dates(rows) == {rows[i].Waktu : i \in DOMAIN rows} \ {NaT}

\* (df['Waktu'].min(), df['Waktu'].max()): nulls are skipped
Periode(rows) ==
    IF Dates(rows) = {} THEN <<NaT, NaT>>
    ELSE <<CHOOSE d \in Dates(rows) : \A e \in Dates(rows) : d <= e,
           CHOOSE d \in Dates(rows) : \A e \in Dates(rows) : d >= e>>

\* df.groupby(df['Waktu'].dt.date).size(): rows per date, null dates dropped
BeritaPerHari(rows) ==
    [d \in Dates(rows) |-> Cardinality({i \in DOMAIN rows : rows[i].Waktu = d})]

----------------------------------------------------------------------------
(* analyze_news_and_slang *)

\* head(10) of the pooled tag counts
TopTagsN == 10
\* the cap on the example list
MaxExamples == 5

\* placeholder of a local that is not assigned yet
Unset == <<>>

Fields == {"berita_dengan_gaul_judul", "berita_dengan_gaul_konten",
           "frekuensi_kata_gaul", "berita_gaul_per_sumber", "contoh_berita_gaul"}

NoWrites == [f \in Fields |-> 0]

\* as TopTags, taking the first ten values met instead of the ten most frequent
TopTags_unsorted(rows) ==
    HeadN(CounterUpdate(<<>>, DropNa(PooledTags(rows), NoTag)), TopTagsN)

\* the top-tags expression of lines 75-76
TopTags(rows) == HeadN(ValueCounts(PooledTags(rows), NoTag), TopTagsN)

\* the dict literal of lines 71-85
InitialResults(rows) ==
    [total_berita |-> Len(rows),
     periode |-> Periode(rows),
     sumber_berita |-> ValueCounts([i \in DOMAIN rows |-> rows[i].Source], NoTag),
     top_tags |-> TopTags(rows),
     berita_per_hari |-> BeritaPerHari(rows),
     berita_dengan_gaul_judul |-> 0,
     berita_dengan_gaul_konten |-> 0,
     frekuensi_kata_gaul |-> <<>>,
     berita_gaul_per_sumber |-> <<>>,
     contoh_berita_gaul |-> <<>>]

\* list(set(words)): the distinct words, each once, in an order the program does
\* not determine
RECURSIVE ListOfSet(_)
ListOfSet(S) ==
    IF S = {} THEN <<>>
    ELSE LET x == CHOOSE y \in S : TRUE IN <<x>> \o ListOfSet(S \ {x})

\* the 'kata_gaul' entry of an example record (line 111)
KataGaul(sit, sic) == ListOfSet(Range(sit \o sic))

\* the example record of lines 107-112
Example(row, sit, sic) ==
    [judul |-> row.Judul, waktu |-> row.Waktu, source |-> row.Source,
     kata_gaul |-> KataGaul(sit, sic)]

\* st = [res |-> the results dict, w |-> the writes made to it for this row,
\*       sit, sic |-> the two detections of lines 90 and 93]
Wrote(w, f) == [w EXCEPT ![f] = @ + 1]

\* lines 95-97
TitleBranch(st, sit) ==
    IF sit # <<>>
    THEN [st EXCEPT
            !.res.berita_dengan_gaul_judul = @ + 1,
            !.res.frekuensi_kata_gaul = CounterUpdate(@, sit),
            !.w = Wrote(Wrote(@, "berita_dengan_gaul_judul"), "frekuensi_kata_gaul")]
    ELSE st

\* as ContentBranch, with the increment of the title branch pasted in as well
ContentBranch_pasted(st, sic) ==
    IF sic # <<>>
    THEN [st EXCEPT
            !.res.berita_dengan_gaul_judul = @ + 1,
            !.res.berita_dengan_gaul_konten = @ + 1,
            !.res.frekuensi_kata_gaul = CounterUpdate(@, sic),
            !.w = Wrote(Wrote(Wrote(@, "berita_dengan_gaul_judul"),
                              "berita_dengan_gaul_konten"), "frekuensi_kata_gaul")]
    ELSE st

\* as ContentBranch, without folding the content words into the frequencies
ContentBranch_no_fold(st, sic) ==
    IF sic # <<>>
    THEN [st EXCEPT
            !.res.berita_dengan_gaul_konten = @ + 1,
            !.w = Wrote(@, "berita_dengan_gaul_konten")]
    ELSE st

\* lines 99-101
ContentBranch(st, sic) ==
    IF sic # <<>>
    THEN [st EXCEPT
            !.res.berita_dengan_gaul_konten = @ + 1,
            !.res.frekuensi_kata_gaul = CounterUpdate(@, sic),
            !.w = Wrote(Wrote(@, "berita_dengan_gaul_konten"), "frekuensi_kata_gaul")]
    ELSE st

\* as ExampleBranch, with <= for < in the test of line 106
ExampleBranch_off_by_one(st, row, sit, sic) ==
    IF Len(st.res.contoh_berita_gaul) <= MaxExamples
    THEN [st EXCEPT
            !.res.contoh_berita_gaul = Append(@, Example(row, sit, sic)),
            !.w = Wrote(@, "contoh_berita_gaul")]
    ELSE st

\* lines 106-112
ExampleBranch(st, row, sit, sic) ==
    IF Len(st.res.contoh_berita_gaul) < MaxExamples
    THEN [st EXCEPT
            !.res.contoh_berita_gaul = Append(@, Example(row, sit, sic)),
            !.w = Wrote(@, "contoh_berita_gaul")]
    ELSE st

\* as EitherBranch, testing the title detection alone in line 103
EitherBranch_title_only(st, row, sit, sic) ==
    IF sit # <<>>
    THEN ExampleBranch(
             [st EXCEPT
                !.res.berita_gaul_per_sumber = CounterInc(@, row.Source),
                !.w = Wrote(@, "berita_gaul_per_sumber")],
             row, sit, sic)
    ELSE st

\* as EitherBranch, with line 104 indented into the block of line 106
EitherBranch_nested(st, row, sit, sic) ==
    IF (sit # <<>> \/ sic # <<>>) /\ Len(st.res.contoh_berita_gaul) < MaxExamples
    THEN [st EXCEPT
            !.res.berita_gaul_per_sumber = CounterInc(@, row.Source),
            !.res.contoh_berita_gaul = Append(@, Example(row, sit, sic)),
            !.w = Wrote(Wrote(@, "berita_gaul_per_sumber"), "contoh_berita_gaul")]
    ELSE st

\* lines 103-112
EitherBranch(st, row, sit, sic) ==
    IF sit # <<>> \/ sic # <<>>
    THEN ExampleBranch(
             [st EXCEPT
                !.res.berita_gaul_per_sumber = CounterInc(@, row.Source),
                !.w = Wrote(@, "berita_gaul_per_sumber")],
             row, sit, sic)
    ELSE st

\* one iteration of the loop of line 88, on the results so far
LoopBody(res, row) ==
    LET sit == detect_slang_words(row.Judul, SlangDictionary)
        sic == detect_slang_words(row.Content, SlangDictionary)
        st0 == [res |-> res, w |-> NoWrites, sit |-> sit, sic |-> sic]
    IN  EitherBranch(ContentBranch(TitleBranch(st0, sit), sic), row, sit, sic)

\* the loop of lines 88-112 over rows[from..], starting from res
RECURSIVE LoopFrom(_, _, _)
LoopFrom(res, rows, from) ==
    IF from > Len(rows) THEN res
    ELSE LoopFrom(LoopBody(res, rows[from]).res, rows, from + 1)

\* the whole function on a table
analyze_news_and_slang(rows) == LoopFrom(InitialResults(rows), rows, 1)

----------------------------------------------------------------------------
(* create_visualizations, create_visual_report *)

\* head(10) of the slang-word frame
TopWordsN == 10

FileNames == {"hasil_analisis_umum.png", "hasil_analisis_bahasa_gaul.png",
              "laporan_visual.png"}

\* the frame of lines 166-168: the counter's items in the counter's own order,
\* cut to the first ten
TopWords(res) == HeadN(res.frekuensi_kata_gaul, TopWordsN)

\* as CloseCurrent, with the plt.close() call left out
CloseCurrent_missing(open) == open

\* plt.close(): releases the current figure
CloseCurrent(open) == SubSeq(open, 1, Len(open) - 1)

\* as OnLoadError, with the exception raised again instead of swallowed
OnLoadError_reraise == [pc |-> "raised", df |-> None]

\* what load_data's except clause hands back to main (lines 27-29)
OnLoadError == [pc |-> "main_check", df |-> None]

\* the test of line 285
HasData(d) == d # None

----------------------------------------------------------------------------
(* main *)

Init ==
    /\ pc = "main_load"
    /\ calls = <<>>
    /\ df = None
    /\ idx = 0
    /\ results = Unset
    /\ slang_in_title = Unset
    /\ slang_in_content = Unset
    /\ writes = NoWrites
    /\ figs = <<>>
    /\ created = <<>>
    /\ files = [f \in FileNames |-> "absent"]
    /\ top_words = Unset
    /\ text = Unset
    /\ vocab = {}
    /\ found = Unset

detectVars == <<text, vocab, found>>
analyzeVars == <<idx, results, slang_in_title, slang_in_content, writes>>
renderVars == <<figs, created, files, top_words>>

\* line 283, read_csv succeeds: load_data returns the table
LoadDataOk ==
    /\ pc = "main_load"
    /\ \E rows \in Tables : df' = Loaded(rows)
    /\ pc' = "main_check"
    /\ calls' = Append(calls, "load_data")
    /\ UNCHANGED <<analyzeVars, renderVars, detectVars>>

\* line 283, read_csv raises: the except clause prints and returns None
LoadDataError ==
    /\ pc = "main_load"
    /\ df' = OnLoadError.df
    /\ pc' = OnLoadError.pc
    /\ calls' = Append(calls, "load_data")
    /\ UNCHANGED <<analyzeVars, renderVars, detectVars>>

\* line 285, data present: main calls analyze_news_and_slang, which builds the dict
MainAnalyze ==
    /\ pc = "main_check"
    /\ HasData(df)
    /\ calls' = Append(calls, "analyze_news_and_slang")
    /\ results' = InitialResults(df.rows)
    /\ idx' = 0
    /\ pc' = "analyze_loop"
    /\ UNCHANGED <<df, slang_in_title, slang_in_content, writes, renderVars, detectVars>>

\* line 285, no data: main returns
MainSkip ==
    /\ pc = "main_check"
    /\ ~HasData(df)
    /\ pc' = "done"
    /\ UNCHANGED <<calls, df, analyzeVars, renderVars, detectVars>>

\* one iteration of the loop of line 88
AnalyzeRow ==
    /\ pc = "analyze_loop"
    /\ idx < Len(df.rows)
    /\ LET row == df.rows[idx + 1]
           st == LoopBody(results, row)
       IN  /\ results' = st.res
           /\ writes' = st.w
           /\ slang_in_title' = st.sit
           /\ slang_in_content' = st.sic
    /\ idx' = idx + 1
    /\ UNCHANGED <<pc, calls, df, renderVars, detectVars>>

\* line 114 and line 292: the loop is over, main calls create_visualizations,
\* which opens fig1 (line 124)
AnalyzeReturn ==
    /\ pc = "analyze_loop"
    /\ idx = Len(df.rows)
    /\ calls' = Append(calls, "create_visualizations")
    /\ figs' = Append(figs, "fig1")
    /\ created' = Append(created, "fig1")
    /\ pc' = "fig1_draw"
    /\ UNCHANGED <<df, analyzeVars, files, top_words, detectVars>>

\* a drawing step between plt.figure and plt.savefig
Draw(at, next) ==
    /\ pc = at
    /\ pc' = next
    /\ UNCHANGED <<calls, df, analyzeVars, figs, created, files, detectVars>>

\* a drawing call raises: nothing catches it, main ends with the exception
DrawRaises(at) ==
    /\ pc = at
    /\ pc' = "raised"
    /\ UNCHANGED <<calls, df, analyzeVars, renderVars, detectVars>>

\* plt.savefig(name)
SaveFig(at, next, name) ==
    /\ pc = at
    /\ files' = [files EXCEPT ![name] = "saved"]
    /\ pc' = next
    /\ UNCHANGED <<calls, df, analyzeVars, figs, created, top_words, detectVars>>

\* plt.savefig(name) raises: the file is untouched or left incomplete
SaveFigRaises(at, name) ==
    /\ pc = at
    /\ \E state \in {files[name], "partial"} : files' = [files EXCEPT ![name] = state]
    /\ pc' = "raised"
    /\ UNCHANGED <<calls, df, analyzeVars, figs, created, top_words, detectVars>>

\* plt.close() followed by the next plt.figure()
CloseThenFigure(at, next, fig) ==
    /\ pc = at
    /\ figs' = Append(CloseCurrent(figs), fig)
    /\ created' = Append(created, fig)
    /\ pc' = next
    /\ UNCHANGED <<df, analyzeVars, files, top_words, detectVars>>

\* lines 127-149
Fig1Draw == Draw("fig1_draw", "fig1_save") /\ UNCHANGED top_words
Fig1DrawRaises == DrawRaises("fig1_draw")
\* line 150
Fig1Save == SaveFig("fig1_save", "fig1_close", "hasil_analisis_umum.png")
Fig1SaveRaises == SaveFigRaises("fig1_save", "hasil_analisis_umum.png")
\* lines 151-154
Fig1CloseFig2New == CloseThenFigure("fig1_close", "fig2_draw", "fig2") /\ UNCHANGED calls
\* lines 157-186, with the frame of lines 166-168
Fig2Draw == Draw("fig2_draw", "fig2_save") /\ top_words' = TopWords(results)
Fig2DrawRaises == DrawRaises("fig2_draw")
\* line 187
Fig2Save == SaveFig("fig2_save", "fig2_close", "hasil_analisis_bahasa_gaul.png")
Fig2SaveRaises == SaveFigRaises("fig2_save", "hasil_analisis_bahasa_gaul.png")
\* line 188, then line 296: create_visualizations returns, main calls
\* create_visual_report, which opens its figure (line 198)
Fig2CloseReportNew ==
    /\ CloseThenFigure("fig2_close", "report_draw", "fig")
    /\ calls' = Append(calls, "create_visual_report")
\* lines 201-269
ReportDraw == Draw("report_draw", "report_save") /\ UNCHANGED top_words
ReportDrawRaises == DrawRaises("report_draw")
\* line 272
ReportSave == SaveFig("report_save", "report_close", "laporan_visual.png")
ReportSaveRaises == SaveFigRaises("report_save", "laporan_visual.png")
\* line 274, then main prints and returns
ReportClose ==
    /\ pc = "report_close"
    /\ figs' = CloseCurrent(figs)
    /\ pc' = "done"
    /\ UNCHANGED <<calls, df, analyzeVars, created, files, top_words, detectVars>>

Next ==
    \/ LoadDataOk
    \/ LoadDataError
    \/ MainAnalyze
    \/ MainSkip
    \/ AnalyzeRow
    \/ AnalyzeReturn
    \/ Fig1Draw
    \/ Fig1DrawRaises
    \/ Fig1Save
    \/ Fig1SaveRaises
    \/ Fig1CloseFig2New
    \/ Fig2Draw
    \/ Fig2DrawRaises
    \/ Fig2Save
    \/ Fig2SaveRaises
    \/ Fig2CloseReportNew
    \/ ReportDraw
    \/ ReportDrawRaises
    \/ ReportSave
    \/ ReportSaveRaises
    \/ ReportClose

Spec == Init /\ [][Next]_vars

----------------------------------------------------------------------------
(* detect_slang_words on its own, over every short text and vocabulary *)

DetectAlphabet == {"a", "A", "b", " ", "_"}

DetectTexts == UNION {[1..n -> DetectAlphabet] : n \in 0..MaxTextLen} \cup {NaN}

DetectWords == {<<"a">>, <<"a", "b">>, <<"A">>, <<"a", " ", "b">>}

InitDetect ==
    /\ pc = "detect_call"
    /\ text \in DetectTexts
    /\ vocab \in SUBSET DetectWords
    /\ found = Unset
    /\ calls = <<>>
    /\ df = None
    /\ idx = 0
    /\ results = Unset
    /\ slang_in_title = Unset
    /\ slang_in_content = Unset
    /\ writes = NoWrites
    /\ figs = <<>>
    /\ created = <<>>
    /\ files = [f \in FileNames |-> "absent"]
    /\ top_words = Unset

DetectCall ==
    /\ pc = "detect_call"
    /\ found' = detect_slang_words(text, vocab)
    /\ pc' = "detect_return"
    /\ UNCHANGED <<calls, df, analyzeVars, renderVars, text, vocab>>

NextDetect == DetectCall

SpecDetect == InitDetect /\ [][NextDetect]_vars

----------------------------------------------------------------------------
(* Properties of detect_slang_words (under SpecDetect) *)

\* the maximal runs of word characters of s, as <<first, last>> index pairs
Runs(s) ==
    {r \in (DOMAIN s) \X (DOMAIN s) :
        /\ r[1] <= r[2]
        /\ \A i \in r[1]..r[2] : IsWordChar(s[i])
        /\ (r[1] = 1 \/ ~IsWordChar(s[r[1] - 1]))
        /\ (r[2] = Len(s) \/ ~IsWordChar(s[r[2] + 1]))}

\* C1: the detector returns exactly the word tokens of the lower-cased text that
\* are in the vocabulary, one entry per occurrence, in order of occurrence.
C1_DetectExact ==
    pc = "detect_return" =>
        LET s == Lower(Str(text))
            hits == {r \in Runs(s) : SubSeq(s, r[1], r[2]) \in vocab}
            rank(r) == Cardinality({q \in hits : q[1] <= r[1]})
        IN  /\ Len(found) = Cardinality(hits)
            /\ \A r \in hits : found[rank(r)] = SubSeq(s, r[1], r[2])

\* an upper-case occurrence and a lower-case occurrence of one word, both reported,
\* next to a token that is not in the vocabulary
C1_Witness ==
    /\ pc = "detect_return"
    /\ text = <<"A", " ", "a", "b">>
    /\ vocab = {<<"a">>, <<"A">>}
    /\ found = <<<<"a">>>>

----------------------------------------------------------------------------
(* Properties of the aggregation pass (under Spec) *)

\* the dict exists: analyze_news_and_slang has been entered
HasResults == Len(calls) >= 2

\* the loop of line 88 has handled every row
AnalysisDone == pc = "analyze_loop" /\ idx = Len(df.rows)

TitleDet(row) == detect_slang_words(row.Judul, SlangDictionary)
ContentDet(row) == detect_slang_words(row.Content, SlangDictionary)
SlangBearing(row) == TitleDet(row) # <<>> \/ ContentDet(row) # <<>>

\* number of occurrences of v in the sequence s
Occ(s, v) == Cardinality({k \in DOMAIN s : s[k] = v})

RECURSIVE SumCounts(_)
SumCounts(c) == IF c = <<>> THEN 0 ELSE Head(c)[2] + SumCounts(Tail(c))

NoDuplicates(s) == \A j, k \in DOMAIN s : j # k => s[j] # s[k]

\* C2: after the pass the title counter, the content counter and every source's
\* slang-article counter equal the numbers of rows with a non-empty title
\* detection, with a non-empty content detection, and (per source) with either.
C2_Counters ==
    AnalysisDone =>
        LET rows == df.rows IN
        /\ results.berita_dengan_gaul_judul
              = Cardinality({i \in DOMAIN rows : TitleDet(rows[i]) # <<>>})
        /\ results.berita_dengan_gaul_konten
              = Cardinality({i \in DOMAIN rows : ContentDet(rows[i]) # <<>>})
        /\ NoDuplicates([j \in DOMAIN results.berita_gaul_per_sumber |->
                            results.berita_gaul_per_sumber[j][1]])
        /\ \A s \in Sources \cup Keys(results.berita_gaul_per_sumber) :
              CounterGet(results.berita_gaul_per_sumber, s)
                = Cardinality({i \in DOMAIN rows :
                                  rows[i].Source = s /\ SlangBearing(rows[i])})

\* a table with every kind of row has been processed: the three counters differ
C2_Witness ==
    /\ AnalysisDone
    /\ RowTypes \subseteq Range(df.rows)
    /\ results.berita_dengan_gaul_judul = 2
    /\ results.berita_dengan_gaul_konten = 3
    /\ CounterGet(results.berita_gaul_per_sumber, "Tempo") = 1
    /\ CounterGet(results.berita_gaul_per_sumber, "Detik") = 1

\* the title detection followed by the content detection of every row, in row order
RECURSIVE AllDetections(_)
AllDetections(rows) ==
    IF rows = <<>> THEN <<>>
    ELSE TitleDet(Head(rows)) \o ContentDet(Head(rows)) \o AllDetections(Tail(rows))

\* C3: after the pass the frequency of every word is the number of its occurrences
\* in the title detections plus that in the content detections of all rows, and
\* the frequencies sum to at least each single one.
C3_Frequencies ==
    AnalysisDone =>
        LET all == AllDetections(df.rows)
            freq == results.frekuensi_kata_gaul
        IN  /\ NoDuplicates([j \in DOMAIN freq |-> freq[j][1]])
            /\ \A w \in Range(all) \cup Keys(freq) : CounterGet(freq, w) = Occ(all, w)
            /\ \A j \in DOMAIN freq : SumCounts(freq) >= freq[j][2]

\* one row with 'gue' once in the title and twice in the content: counted 3 times
C3_Witness ==
    /\ AnalysisDone
    /\ df.rows = <<RowBoth>>
    /\ CounterGet(results.frekuensi_kata_gaul, <<"g", "u", "e">>) = 3

\* the slang-bearing rows, in table order
BearingRows(rows) == SelectSeq(rows, SlangBearing)

\* C4: the example list never holds more than 5 records; after the pass it is the
\* first min(5, k) slang-bearing rows in table order, each with its title, timestamp,
\* source and a duplicate-free list of exactly the words detected in the row.
C4_Examples ==
    /\ HasResults => Len(results.contoh_berita_gaul) <= MaxExamples
    /\ AnalysisDone =>
        LET bearing == BearingRows(df.rows)
            ex == results.contoh_berita_gaul
        IN  /\ Len(ex) = Min2(MaxExamples, Len(bearing))
            /\ \A j \in DOMAIN ex :
                  /\ ex[j].judul = bearing[j].Judul
                  /\ ex[j].waktu = bearing[j].Waktu
                  /\ ex[j].source = bearing[j].Source
                  /\ NoDuplicates(ex[j].kata_gaul)
                  /\ Range(ex[j].kata_gaul)
                       = Range(TitleDet(bearing[j])) \cup Range(ContentDet(bearing[j]))

\* more slang-bearing rows than the cap, of more than one kind: the last one is
\* not an example
C4_Witness ==
    /\ AnalysisDone
    /\ Len(BearingRows(df.rows)) > MaxExamples
    /\ df.rows[1] # df.rows[2]
    /\ Len(results.contoh_berita_gaul) = MaxExamples

\* the calls main makes when the load succeeds
FullRun == <<"load_data", "analyze_news_and_slang", "create_visualizations",
             "create_visual_report">>

\* C5: a failed load gives None without raising, and after None neither the
\* analysis nor a rendering step runs; after a successful load main calls
\* load, aggregate, render in this order.
C5_LoadGuard ==
    /\ Len(calls) <= Len(FullRun) /\ calls = SubSeq(FullRun, 1, Len(calls))
    /\ (pc # "main_load" /\ df = None) =>
          /\ calls = <<"load_data">>
          /\ pc \in {"main_check", "done"}
          /\ figs = <<>> /\ created = <<>>
          /\ \A f \in FileNames : files[f] = "absent"
    /\ (pc = "done" /\ df # None) => calls = FullRun

\* the load failed and main has returned
C5_Witness == pc = "done" /\ df = None /\ calls = <<"load_data">>

\* the counts of a result; the bounded example list and the order of equal counts
\* are left out
Aggregates(res) ==
    [total_berita |-> res.total_berita,
     sumber_berita |-> Range(res.sumber_berita),
     berita_dengan_gaul_judul |-> res.berita_dengan_gaul_judul,
     berita_dengan_gaul_konten |-> res.berita_dengan_gaul_konten,
     frekuensi_kata_gaul |-> Range(res.frekuensi_kata_gaul),
     berita_gaul_per_sumber |-> Range(res.berita_gaul_per_sumber),
     berita_per_hari |-> res.berita_per_hari]

\* every arrangement of the rows of a table
RECURSIVE Arrangements(_)
Arrangements(rows) ==
    IF rows = <<>> THEN {<<>>}
    ELSE UNION {{<<rows[i]>> \o rest :
                    rest \in Arrangements(SubSeq(rows, 1, i - 1)
                                          \o SubSeq(rows, i + 1, Len(rows)))} :
                i \in DOMAIN rows}

\* the rows of a table grouped by kind: every arrangement of a table has the same
\* grouped arrangement
RECURSIVE Grouped(_, _)
Grouped(rows, k) ==
    IF k > Len(RowList) THEN <<>>
    ELSE SelectSeq(rows, LAMBDA r : r = RowList[k]) \o Grouped(rows, k + 1)

\* tables up to this length are compared with each of their arrangements
MaxPermRows == 3

\* C6: the aggregate counts do not depend on the order of the rows.  Short tables
\* are compared with every arrangement; every table is compared with its grouped
\* arrangement, which all arrangements of it share.
C6_OrderIndependent ==
    AnalysisDone =>
        /\ Aggregates(results) = Aggregates(analyze_news_and_slang(Grouped(df.rows, 1)))
        /\ Len(df.rows) <= MaxPermRows =>
              \A p \in Arrangements(df.rows) :
                  Aggregates(analyze_news_and_slang(p)) = Aggregates(results)

\* two orders of one table with the same counts and different example lists
C6_Witness ==
    /\ AnalysisDone
    /\ Len(BearingRows(df.rows)) > MaxExamples
    /\ Grouped(df.rows, 1) # df.rows
    /\ analyze_news_and_slang(Grouped(df.rows, 1)).contoh_berita_gaul
         # results.contoh_berita_gaul

\* the tag cells read row after row
RECURSIVE RowMajorTags(_)
RowMajorTags(rows) ==
    IF rows = <<>> THEN <<>> ELSE Head(rows).Tags \o RowMajorTags(Tail(rows))

\* the dict has just been built
ResultsBuilt == pc = "analyze_loop" /\ idx = 0

\* C7 as claimed: the ten most frequent tags by descending frequency, equal
\* frequencies in the order the values are first met visiting rows in table order.
C7_RowOrderTies ==
    ResultsBuilt =>
        results.top_tags = HeadN(ValueCounts(RowMajorTags(df.rows), NoTag), TopTagsN)

\* C7 as amended: top_tags holds min(10, number of distinct tags) distinct non-null
\* tags with their exact pooled frequencies, in non-increasing frequency, and no
\* tag left out is more frequent than a tag kept.
C7_TopTags ==
    ResultsBuilt =>
        LET pool == PooledTags(df.rows)
            tags == Range(pool) \ {NoTag}
            tt == results.top_tags
            kept == {tt[j][1] : j \in DOMAIN tt}
        IN  /\ Len(tt) = Min2(TopTagsN, Cardinality(tags))
            /\ kept \subseteq tags
            /\ NoDuplicates(tt)
            /\ \A j \in DOMAIN tt : tt[j][2] = Occ(pool, tt[j][1])
            /\ \A j, k \in DOMAIN tt : j < k => tt[j][2] >= tt[k][2]
            /\ \A v \in tags \ kept : \A j \in DOMAIN tt : Occ(pool, v) <= tt[j][2]

\* more than ten distinct tags, and the cut falls between two tags of equal count
C7_Witness ==
    /\ ResultsBuilt
    /\ Len(results.top_tags) = TopTagsN
    /\ \E v \in Range(PooledTags(df.rows)) \ {NoTag} :
          /\ \A j \in DOMAIN results.top_tags : results.top_tags[j][1] # v
          /\ Occ(PooledTags(df.rows), v) = results.top_tags[TopTagsN][2]

\* C8 as claimed: while one row is processed no result field is written twice.
C8_WriteOnce == \A f \in Fields : writes[f] <= 1

\* 1 for a non-empty detection, 0 for an empty one
Matched(det) == IF det # <<>> THEN 1 ELSE 0

\* C8 as amended: while one row is processed every result field is written at most
\* once, except the frequency mapping, which is updated once for a title match and
\* once more for a content match.
C8_WritesPerRow ==
    (pc = "analyze_loop" /\ idx > 0) =>
        /\ \A f \in Fields \ {"frekuensi_kata_gaul"} : writes[f] <= 1
        /\ writes["frekuensi_kata_gaul"]
             = Matched(slang_in_title) + Matched(slang_in_content)
        /\ writes["berita_dengan_gaul_judul"] = Matched(slang_in_title)
        /\ writes["berita_dengan_gaul_konten"] = Matched(slang_in_content)

\* a row with slang in the title and in the content has been processed
C8_Witness ==
    /\ pc = "analyze_loop"
    /\ slang_in_title # <<>> /\ slang_in_content # <<>>
    /\ writes["frekuensi_kata_gaul"] = 2
    /\ writes["berita_gaul_per_sumber"] = 1

----------------------------------------------------------------------------
(* Properties of the rendering steps (under Spec) *)

FileOf(fig) ==
    CASE fig = "fig1" -> "hasil_analisis_umum.png"
      [] fig = "fig2" -> "hasil_analisis_bahasa_gaul.png"
      [] fig = "fig" -> "laporan_visual.png"

\* at most one figure is open, and whenever a figure has been created every
\* figure created before it has been saved and released
OneFigureAtATime ==
    /\ Len(figs) <= 1
    /\ \A j \in DOMAIN created :
          j < Len(created) =>
              /\ files[FileOf(created[j])] = "saved"
              /\ created[j] \notin Range(figs)

C10_MostPopularShown ==
    pc = "fig2_save" =>
        LET freq == results.frekuensi_kata_gaul
            shown == Keys(top_words)
        IN  \A v \in Keys(freq) \ shown : \A w \in shown :
                CounterGet(freq, v) <= CounterGet(freq, w)

====
